---- MODULE Spec2Model ----
(***************************************************************************)
(* Readiness gating and iteration control of the smart-dev plugin.         *)
(*                                                                         *)
(* The persisted state is the frontmatter of .works/spec/<f>/progress.md   *)
(* (written by init.sh, changed through update-progress.sh --set-field)    *)
(* and the presence of .works/spec/<f>/spec.lock.  The loop and dev        *)
(* commands (commands/loop.md, commands/dev.md) drive the record, the      *)
(* cancel command (commands/cancel.md) and the operator change it from     *)
(* outside, and the Stop hook (loop-stop.sh) decides whether the session   *)
(* may end.                                                                *)
(***************************************************************************)
EXTENDS Integers, FiniteSets, Sequences, TLC

VARIABLES
    workspace,   \* set of features whose directory .works/spec/<f> exists
    progress,    \* feature -> frontmatter of its progress.md
    spec_lock,   \* feature -> TRUE iff .works/spec/<f>/spec.lock exists
    cmd,         \* command running in the session: "none", "loop" or "dev"
    cur,         \* feature the running command works on
    pc,          \* position of the running command
    param,       \* parameters the running command was given
    snap,        \* fields of progress.md read by step 1 of the iteration
    attempts,    \* dev mode: verification attempts made in phase 4
    report,      \* last report printed by the command
    stop_exit,   \* exit code of the Stop hook if it has just run, else -1
    gate_result, \* outcome of the readiness gate if it has just run
    attempt,     \* tool use submitted to the PreToolUse hook
    guard_exit,  \* exit code of the PreToolUse hook if it has just run, else -1
    cancel_result, \* feature and exit code of the cancel command if it has just run
    contracts_md, \* .works/spec/f1/contracts.md as the scorer's patterns see it
    tasks_md,    \* .works/spec/f1/tasks.md as the scorer's patterns see it
    now,         \* clock read by new Date()
    score_json,  \* .works/spec/f1/score.json, NoScore when there is none
    score_run,   \* exit code of score-spec.ts if it has just run
    progress_md, \* a progress.md file as update-progress.sh sees it: its key: value lines
    utc,         \* clock read by date -u
    upd_run,     \* arguments, exit code and file before, if update-progress.sh has just run
    pending_txt, \* .context-keeper/pending.txt: the paths appended to it
    strict,      \* whether the Stop hook of context-keeper is configured with --strict
    owed,        \* files recorded in pending.txt whose documentation was not updated since
    keeper_exit, \* exit code of context-keeper's stop.sh if it has just run, else -1
    spec_docs,   \* contracts.md and tasks.md as the Judge reads them
    api_key,     \* whether ANTHROPIC_API_KEY is set
    api_up,      \* whether a call of the API succeeds
    minutes,     \* clock read by Date.now(), in minutes
    semantic_check_json, \* .works/spec/f1/semantic-check.json
    sem_run      \* exit code of check-semantic.ts if it has just run

workflowVars == <<workspace, progress, spec_lock, cmd, cur, pc, param, snap,
                  attempts, report, stop_exit, gate_result, attempt, guard_exit,
                  cancel_result>>

scorerVars == <<contracts_md, tasks_md, now, score_json, score_run>>

updaterVars == <<progress_md, utc, upd_run>>

\* the scripts modelled on their own, apart from the scorer
keeperVars == <<pending_txt, strict, owed, keeper_exit>>

judgeVars == <<spec_docs, api_key, api_up, minutes, semantic_check_json, sem_run>>

scriptVars == <<updaterVars, keeperVars, judgeVars>>

\* everything a step of the workflow leaves alone
toolVars == <<scorerVars, scriptVars>>

vars == <<workflowVars, scorerVars, scriptVars>>

----------------------------------------------------------------------------
(* Bounds of the model *)

\* the small value of --max-iterations tried next to the default
MaxParamIterations == 2
\* the large value of --question-rounds tried next to the default
MaxQuestionRounds == 3
\* iteration counter cap: no cycle is modelled beyond it
IterCap == 4
\* the Stop hook is checked on records whose iteration is within HookMaxIter
\* of 0 or of the ceiling
HookMaxIter == 1
\* longest file path, in segments, submitted to the write guard
MaxPathLen == 5
\* latest reading of the clock while the scorer is tried
MaxClock == 1
\* most "- [ ]" lines in tasks.md
MaxChecklist == 3
\* most placeholder occurrences in contracts.md
MaxOccur == 2
\* most arguments after the feature name given to update-progress.sh
MaxUpdArgs == 4
\* latest reading of the clock while update-progress.sh is tried
MaxUtc == 1
\* most lines of pending.txt
MaxPending == 3
\* latest reading of the clock, in minutes, while check-semantic.ts is tried
MaxMinutes == 6

(* Program constants *)

DefaultMaxIterations == 20
DefaultQuestionBudget == 2
DefaultThreshold == 95
MaxVerifyAttempts == 3
ScorerDefaultThreshold == 95
CacheTtlMinutes == 5

Features == {"f1", "f2"}
\* features for which a loop or dev command is issued; the other feature is
\* only initialised, cancelled or marked by the operator
Driven == {"f1"}

NonTerminal == {"collecting", "implementing", "fixing"}
Terminal == {"done", "blocked", "canceled"}
Statuses == {"in_progress", "completed"} \cup NonTerminal \cup Terminal
VerificationStatuses == {"", "pass", "fail"}

\* Track A totals and --confidence-threshold values tried
Scores == {94, 95}
Thresholds == {DefaultThreshold, DefaultThreshold + 1}
\* Track B outcome: verdict ok, verdict not ok, judge not available (no API
\* key), or the call to the judge failed
Verdicts == {"ok", "not_ok", "unavailable", "failed"}
ParamIterations == {MaxParamIterations, DefaultMaxIterations}
ParamQuestionRounds == {DefaultQuestionBudget, MaxQuestionRounds}

----------------------------------------------------------------------------
(* progress.md as init.sh writes it *)
InitRecord ==
    [ status |-> "in_progress",
      phase |-> 1,
      mode |-> "dev",
      iteration |-> 0,
      max_iterations |-> DefaultMaxIterations,
      confidence_threshold |-> DefaultThreshold,
      readiness_score |-> 0,
      semantic_ok |-> FALSE,
      spec_locked |-> FALSE,
      question_round |-> 0,
      question_budget |-> DefaultQuestionBudget,
      last_verification_status |-> "",
      last_error |-> "",
      assumptions_accepted |-> FALSE ]

\* update-progress.sh <f> --set-field k=v ... : the fields of upd replace
\* those of the record, every other field is kept
SetFields(r, upd) ==
    [k \in DOMAIN r |-> IF k \in DOMAIN upd THEN upd[k] ELSE r[k]]

----------------------------------------------------------------------------
(* Stop hook, loop-stop.sh *)

\* mutant: the filter forgets the canceled features
LoopFeatures_KeepCanceled(ws, prog) ==
    {f \in ws : /\ prog[f].mode = "loop"
                /\ prog[f].status # "completed"}

\* features the hook considers: mode loop, status neither completed nor canceled
LoopFeatures(ws, prog) ==
    {f \in ws : /\ prog[f].mode = "loop"
                /\ prog[f].status # "completed"
                /\ prog[f].status # "canceled"}

FeatureComplete(r) ==
    r.status = "done" /\ r.last_verification_status = "pass"

\* mutant: the ceiling test is off by one
MaxIterationsReached_OffByOne(r) ==
    r.iteration + 1 >= r.max_iterations

MaxIterationsReached(r) ==
    r.iteration >= r.max_iterations

\* mutant: one complete loop feature is enough to allow the stop
LoopStop_AnyComplete(ws, prog) ==
    IF /\ LoopFeatures(ws, prog) # {}
       /\ \A f \in LoopFeatures(ws, prog) :
              ~FeatureComplete(prog[f]) /\ ~MaxIterationsReached(prog[f])
    THEN 2
    ELSE 0

\* exit code: 2 (block) as soon as one loop feature is neither complete nor
\* at its iteration ceiling, 0 (allow) otherwise
LoopStop(ws, prog) ==
    IF \E f \in LoopFeatures(ws, prog) :
           ~FeatureComplete(prog[f]) /\ ~MaxIterationsReached(prog[f])
    THEN 2
    ELSE 0
----------------------------------------------------------------------------
(* PreToolUse hook, guard-writes.sh *)

\* path segments the guard is tried on; a file path is the sequence of its
\* segments, joined by "/"
Segments == {".works", "spec", "f1", ".", "contracts.md", "contracts.md.bak"}
Paths == UNION {[1..n -> Segments] : n \in 1..MaxPathLen}
ToolNames == {"Write", "Edit", "MultiEdit"}

\* a segment that can end a match of "\.works": the regex is not anchored on
\* the left
EndsWithWorks(seg) == seg \in {".works"}

\* a segment that can start a match of "(contracts|tasks|README)\.md": the
\* regex is not anchored on the right
StartsWithSpecFile(seg) == seg \in {"contracts.md", "contracts.md.bak"}

\* positions at which \.works/spec/([^/]+)/(contracts|tasks|README)\.md matches
SpecFileMatches(file_path) ==
    {i \in 1..Len(file_path) :
        /\ i + 3 <= Len(file_path)
        /\ EndsWithWorks(file_path[i])
        /\ file_path[i + 1] = "spec"
        /\ StartsWithSpecFile(file_path[i + 3])}

Leftmost(S) == CHOOSE i \in S : \A j \in S : i <= j

\* BASH_REMATCH[1] of the leftmost match
FeatureName(file_path) == file_path[Leftmost(SpecFileMatches(file_path)) + 2]

\* [[ -f .works/spec/$feature_name/spec.lock ]]
LockFile(feature_name, lock) ==
    feature_name \in DOMAIN lock /\ lock[feature_name]

\* mutant: the guard looks at the tool name only
GuardWrites_NoLockTest(tool_name, file_path, lock) ==
    IF tool_name # "Write" /\ tool_name # "Edit" THEN 0
    ELSE IF SpecFileMatches(file_path) # {} THEN 2
    ELSE 0

\* exit code: 2 (block) for a Write or Edit whose path matches the spec file
\* pattern in a feature directory holding spec.lock, 0 (allow) otherwise
GuardWrites(tool_name, file_path, lock) ==
    IF tool_name # "Write" /\ tool_name # "Edit" THEN 0
    ELSE IF /\ SpecFileMatches(file_path) # {}
            /\ LockFile(FeatureName(file_path), lock) THEN 2
    ELSE 0

\* no cancel command has just run
NoCancel == [feature |-> "f1", exit |-> -1]

NoAttempt == [tool_name |-> "Write", file_path |-> <<".">>]

\* mutant: the guard scores the spec again and records the total
WriteGuard_Rescoring ==
    /\ guard_exit' = GuardWrites(attempt.tool_name, attempt.file_path, spec_lock)
    /\ progress' = [f \in Features |-> [progress[f] EXCEPT !.readiness_score = 0]]
    /\ UNCHANGED <<workspace, spec_lock, cmd, cur, pc, param, snap,
                   attempts, report, stop_exit, gate_result, attempt,
                   cancel_result>>
    /\ UNCHANGED toolVars

\* the host submits the tool use to the hook
WriteGuard ==
    /\ guard_exit' = GuardWrites(attempt.tool_name, attempt.file_path, spec_lock)
    /\ UNCHANGED <<workspace, progress, spec_lock, cmd, cur, pc, param, snap,
                   attempts, report, stop_exit, gate_result, attempt,
                   cancel_result>>
    /\ UNCHANGED toolVars

----------------------------------------------------------------------------
(* Structural scorer, score-spec.ts (Track A).  A document is described by
   what the scorer's patterns find in it: the set of patterns that match,
   the number of "- [ ]" lines and the occurrences of each placeholder
   token. *)

\* patterns tested on contracts.md
ContractPatterns ==
    {"goal_section", "scope_section", "nongoals_section", "interface_section",
     "datamodel_section", "type_definitions", "error_section", "nongoals_body",
     "requirements", "compatibility", "test_command", "build_command",
     "open_questions", "verify_section"}

\* patterns tested on tasks.md
TaskPatterns == {"given_when_then", "test_command", "build_command", "verify_section"}

PlaceholderTokens == {"TBD", "TODO", "???", "[later]"}

NoPlaceholders == [p \in PlaceholderTokens |-> 0]

File(matches, checklist, placeholders) ==
    [exists |-> TRUE, matches |-> matches, checklist |-> checklist,
     placeholders |-> placeholders]

\* existsSync(path) is false
NoFile == [exists |-> FALSE, matches |-> {}, checklist |-> 0,
           placeholders |-> NoPlaceholders]

\* new RegExp(`^#{1,3}\s+${name}`, 'mi').test(content) for one of the names
\* of the section
hasSection(content, section) == section \in content.matches

\* countMatches(tasksContent, /^- \[ \]/gm)
countMatches(content) == content.checklist

\* contractsContent + tasksContent, as far as placeholder tokens go
Concat(c, t) == [p \in PlaceholderTokens |-> c.placeholders[p] + t.placeholders[p]]

\* the placeholder tokens that content.includes(), each listed once
hasPlaceholders(occurrences) ==
    {p \in PlaceholderTokens : occurrences[p] > 0}

Gap(category, check, blocking) ==
    [category |-> category, check |-> check, blocking |-> blocking]

\* 1. structure, 5 points per section
StructureSections ==
    {"goal_section", "scope_section", "nongoals_section", "interface_section",
     "datamodel_section"}

structureScore(contracts) ==
    5 * Cardinality({s \in StructureSections : hasSection(contracts, s)})

\* mutant: checklist items below three earn nothing
ChecklistPoints_AllOrNothing(checklistCount) ==
    IF checklistCount >= 3 THEN 10 ELSE 0

\* 2. testability: task checklists
ChecklistPoints(checklistCount) ==
    IF checklistCount >= 3 THEN 10
    ELSE IF checklistCount > 0 THEN 5
    ELSE 0

\* 2. testability: Given/When/Then or a code block
ExecutablePoints(hasGWT) == IF hasGWT THEN 15 ELSE 5

testabilityScore(tasks) ==
    ChecklistPoints(countMatches(tasks))
        + ExecutablePoints("given_when_then" \in tasks.matches)

\* 3. interfaces
interfacesScore(contracts) ==
    (IF "type_definitions" \in contracts.matches THEN 10 ELSE 0)
        + (IF hasSection(contracts, "error_section") THEN 5 ELSE 0)

\* 4. constraints
constraintsScore(contracts) ==
    (IF "nongoals_body" \in contracts.matches THEN 5 ELSE 0)
        + (IF "requirements" \in contracts.matches THEN 5 ELSE 0)
        + (IF "compatibility" \in contracts.matches THEN 5 ELSE 0)

\* a command pattern is looked for in tasks.md and in contracts.md
InEither(pattern, contracts, tasks) ==
    pattern \in tasks.matches \/ pattern \in contracts.matches

\* 5. verification
verificationScore(contracts, tasks) ==
    (IF InEither("test_command", contracts, tasks) THEN 10 ELSE 0)
        + (IF InEither("build_command", contracts, tasks) THEN 10 ELSE 0)

Breakdown(contracts, tasks) ==
    [structure |-> structureScore(contracts),
     testability |-> testabilityScore(tasks),
     interfaces |-> interfacesScore(contracts),
     constraints |-> constraintsScore(contracts),
     verification |-> verificationScore(contracts, tasks)]

\* result.gaps, one entry per check that did not earn its full value
Gaps(contracts, tasks) ==
    {Gap("structure", s, s \in {"goal_section", "scope_section", "interface_section"}) :
        s \in {x \in StructureSections : ~hasSection(contracts, x)}}
    \cup (IF countMatches(tasks) >= 3 THEN {}
          ELSE {Gap("testability", "checklist", countMatches(tasks) = 0)})
    \cup (IF "given_when_then" \in tasks.matches THEN {}
          ELSE {Gap("testability", "given_when_then", FALSE)})
    \cup (IF "type_definitions" \in contracts.matches THEN {}
          ELSE {Gap("interfaces", "type_definitions", TRUE)})
    \cup {Gap("interfaces", s, FALSE) :
            s \in {x \in {"error_section"} : ~hasSection(contracts, x)}}
    \cup {Gap("constraints", s, FALSE) :
            s \in {"nongoals_body", "requirements", "compatibility"} \ contracts.matches}
    \cup (IF InEither("test_command", contracts, tasks) THEN {}
          ELSE {Gap("verification", "test_command", TRUE)})
    \cup (IF InEither("build_command", contracts, tasks) THEN {}
          ELSE {Gap("verification", "build_command", FALSE)})

Penalty(reason, points) == [reason |-> reason, points |-> points]

\* APPLY PENALTIES: result.penalties in the order they are pushed
Penalties(contracts, tasks) ==
    LET placeholders == hasPlaceholders(Concat(contracts, tasks))
    IN  (IF Cardinality(placeholders) > 0
         THEN <<Penalty("placeholders", Cardinality(placeholders) * 5)>>
         ELSE <<>>)
        \o (IF "open_questions" \in contracts.matches
            THEN <<Penalty("open_questions", 20)>>
            ELSE <<>>)
        \o (IF ~hasSection(contracts, "verify_section") /\ ~hasSection(tasks, "verify_section")
            THEN <<Penalty("no_verify_section", 15)>>
            ELSE <<>>)

RECURSIVE SumPoints(_)
SumPoints(penalties) ==
    IF penalties = <<>> THEN 0
    ELSE Head(penalties).points + SumPoints(Tail(penalties))

RawScore(breakdown) ==
    breakdown.structure + breakdown.testability + breakdown.interfaces
        + breakdown.constraints + breakdown.verification

Max(a, b) == IF a >= b THEN a ELSE b

\* mutant: the total is not clamped at 0
Total_Unclamped(breakdown, penalties) ==
    RawScore(breakdown) - SumPoints(penalties)

\* result.total = Math.max(0, rawScore - penaltyTotal)
Total(breakdown, penalties) ==
    Max(0, RawScore(breakdown) - SumPoints(penalties))

\* the ScoreResult written to score.json by a run at the given time
ScoreResult(contracts, tasks, time) ==
    LET breakdown == Breakdown(contracts, tasks)
        penalties == Penalties(contracts, tasks)
    IN  [total |-> Total(breakdown, penalties),
         breakdown |-> breakdown,
         penalties |-> penalties,
         gaps |-> Gaps(contracts, tasks),
         last_updated |-> time]

\* no score.json
NoScore == [total |-> -1, breakdown |-> Breakdown(NoFile, NoFile), penalties |-> <<>>,
            gaps |-> {}, last_updated |-> -1]

\* texts given after --threshold
ThresholdTexts == {"90", "100", "abc"}

NaN == [nan |-> TRUE, n |-> 0]
Number(n) == [nan |-> FALSE, n |-> n]

\* parseInt(text, 10)
parseInt(text) ==
    CASE text = "90" -> Number(90)
      [] text = "100" -> Number(100)
      [] OTHER -> NaN

\* command lines tried
Argvs ==
    {<<>>, <<"--feature", "f1">>, <<"--feature", "f1", "--threshold">>}
    \cup {<<"--feature", "f1", "--threshold", t>> : t \in ThresholdTexts}

NoArgs == [featureName |-> "", threshold |-> Number(ScorerDefaultThreshold)]

\* the argument loop: a flag followed by a value sets it and skips the value
RECURSIVE ParseArgs(_, _, _)
ParseArgs(args, i, parsed) ==
    IF i > Len(args) THEN parsed
    ELSE IF args[i] = "--feature" /\ i + 1 <= Len(args)
         THEN ParseArgs(args, i + 2, [parsed EXCEPT !.featureName = args[i + 1]])
    ELSE IF args[i] = "--threshold" /\ i + 1 <= Len(args)
         THEN ParseArgs(args, i + 2, [parsed EXCEPT !.threshold = parseInt(args[i + 1])])
    ELSE ParseArgs(args, i + 1, parsed)

\* mutant: a total equal to the threshold fails
AtLeast_Strict(total, th) == ~th.nan /\ total > th.n

\* result.total >= threshold, false when threshold is NaN
AtLeast(total, th) == ~th.nan /\ total >= th.n

\* a run of score-spec.ts: its command line, the threshold it compared with,
\* its exit code, and whether it wrote score.json
ScorerRun(args, th, exit, wrote) ==
    [args |-> args, threshold |-> th, exit |-> exit, wrote |-> wrote]

NoRun == ScorerRun(<<>>, Number(ScorerDefaultThreshold), -1, FALSE)

\* the scorer has not run and there are no documents
ScorerIdle ==
    /\ contracts_md = NoFile
    /\ tasks_md = NoFile
    /\ now = 0
    /\ score_json = NoScore
    /\ score_run = NoRun

----------------------------------------------------------------------------
(* update-progress.sh, --set-field mode *)

\* an argument of the command line: the text before its first "=", whether
\* it has a "=", and the text after it
Arg(name, eq, value) == [name |-> name, eq |-> eq, value |-> value]

SetFieldFlag == Arg("--set-field", FALSE, "")

\* the arguments tried: two values for a key of both templates, one of them
\* an option of echo, a value for a key of the smart-dev template only, and
\* a word without "="
UpdaterTokens ==
    { SetFieldFlag,
      Arg("status", TRUE, "done"),
      Arg("status", TRUE, "-n"),
      Arg("iteration", TRUE, "1"),
      Arg("done", FALSE, "") }

\* [[ "$FIELD" =~ ^[a-z_]+= ]]: a "=" after a name made of the characters
\* a-z and _ only, as are the names tried
ValidField(a) == a.eq /\ a.name \in {"status", "iteration", "done"}

\* words echo takes as options and does not print
EchoOptions == {"-n", "-e", "-E"}

\* $(echo "$VALUE" | sed 's/[&/\]/\\&/g') as the replacement part of the
\* substitution: the escapes give the characters back, a value that echo
\* takes as an option gives the empty text
EscapedValue(v) == IF v \in EchoOptions THEN "" ELSE v

\* sed -i.bak "s/^KEY: .*/KEY: VALUE/": the line of the key is replaced; a
\* file without such a line is left as it is
Sed(fields, key, value) ==
    IF key \in DOMAIN fields THEN [fields EXCEPT ![key] = value] ELSE fields

\* progress.md by its key: value lines
ProgressFile(fields) == [exists |-> TRUE, fields |-> fields]

NoProgressFile == [exists |-> FALSE, fields |-> [k \in {} |-> ""]]

\* the template of feature-development-workflow/scripts/init.sh; the lines
\* no argument tried here names are left out but for phase
LegacyTemplate(timestamp) ==
    [status |-> "in_progress", phase |-> "1", updated_at |-> timestamp]

\* the template of smart-dev/scripts/init.sh, likewise
SmartDevTemplate(timestamp) ==
    [status |-> "in_progress", phase |-> "1", updated_at |-> timestamp,
     iteration |-> "0"]

RECURSIVE SetFieldLoop(_, _)
\* the while loop over the arguments: the file as the loop leaves it, and 0
\* when the loop came to the end of the arguments, 1 when it exited
SetFieldLoop(fields, args) ==
    IF args = <<>> THEN [fields |-> fields, exit |-> 0]
    ELSE IF Head(args) # SetFieldFlag THEN [fields |-> fields, exit |-> 1]
    ELSE IF Len(args) = 1 THEN [fields |-> fields, exit |-> 1]
    ELSE IF ~ValidField(args[2]) THEN [fields |-> fields, exit |-> 1]
    ELSE SetFieldLoop(Sed(fields, args[2].name, EscapedValue(args[2].value)),
                      SubSeq(args, 3, Len(args)))

\* update-progress.sh <feature> args, with args[1] = --set-field
UpdateProgressResult(md, args, timestamp) ==
    IF ~md.exists THEN [md |-> md, exit |-> 1]
    ELSE LET loop == SetFieldLoop(md.fields, args)
         IN  IF loop.exit # 0
             THEN [md |-> ProgressFile(loop.fields), exit |-> loop.exit]
             ELSE [md |-> ProgressFile(Sed(loop.fields, "updated_at", timestamp)),
                   exit |-> 0]

\* arguments, exit code and file before of a run; none has just run
NoUpd == [args |-> <<>>, exit |-> -1, before |-> NoProgressFile]

\* update-progress.sh has not run and there is no file
UpdaterIdle ==
    /\ progress_md = NoProgressFile
    /\ utc = 0
    /\ upd_run = NoUpd

----------------------------------------------------------------------------
(* context-keeper hooks: post_tool_use.sh and stop.sh *)

\* tools named on the first line of the hook's input
KeeperTools == {"edit_file", "write", "create", "delete", "read"}

\* case "${tool_name}" in edit_file|write|create|delete)
TrackedTools == {"edit_file", "write", "create", "delete"}

\* paths found in the tool input by the path="..." pattern; "" when the
\* input has no such pattern. TECH_INFO.md is the documentation of the
\* directory of a.ts and b.ts.
SourceFiles == {"src/a.ts", "src/b.ts"}
DocFile == "src/TECH_INFO.md"

\* the line post_tool_use.sh appends for a tool use, <<>> when it appends none
PendingLine(tool, path) ==
    IF tool \in TrackedTools /\ path # "" THEN <<path>> ELSE <<>>

NoPending == [exists |-> FALSE, lines |-> <<>>]

\* exit code of stop.sh: 2 when pending.txt exists and is not empty
\* ([[ -f && -s ]]) and the argument is --strict
StopExit(pending, arg) ==
    IF pending.exists /\ pending.lines # <<>> /\ arg = "--strict" THEN 2 ELSE 0

\* the hooks have not run and there is no pending.txt
KeeperIdle ==
    /\ pending_txt = NoPending
    /\ strict = FALSE
    /\ owed = {}
    /\ keeper_exit = -1

----------------------------------------------------------------------------
(* check-semantic.ts *)

\* the specification documents: contracts.md or tasks.md missing, or both
\* there, with a text the rubric finds wanting or sufficient
DocStates == {"missing", "insufficient", "sufficient"}

\* the ok of the API's answer for the documents it was sent
JudgeOk(docs) == docs = "sufficient"

\* semantic-check.json: ok, skipped and the time it was written
SemanticCheck(ok, skipped, mtime) ==
    [exists |-> TRUE, ok |-> ok, skipped |-> skipped, mtime |-> mtime]

NoSemanticCheck == [exists |-> FALSE, ok |-> FALSE, skipped |-> FALSE, mtime |-> 0]

\* check-semantic.ts --feature f1: semantic-check.json after the run, the
\* exit code, and whether the cached result was used (the file exists and
\* its age is below CACHE_TTL_MS)
CheckSemanticResult(json, docs, key, up, t) ==
    IF json.exists /\ t - json.mtime < CacheTtlMinutes
    THEN [json |-> json, exit |-> IF json.ok THEN 0 ELSE 1, cached |-> TRUE]
    ELSE IF docs = "missing"
    THEN [json |-> json, exit |-> 1, cached |-> FALSE]
    ELSE IF ~key
    THEN [json |-> SemanticCheck(TRUE, TRUE, t), exit |-> 0, cached |-> FALSE]
    ELSE IF ~up
    THEN [json |-> SemanticCheck(FALSE, FALSE, t), exit |-> 1, cached |-> FALSE]
    ELSE [json |-> SemanticCheck(JudgeOk(docs), FALSE, t),
          exit |-> IF JudgeOk(docs) THEN 0 ELSE 1, cached |-> FALSE]

\* exit code of a run and whether it used the cached result; none has just run
NoSemanticRun == [exit |-> -1, cached |-> FALSE]

\* check-semantic.ts has not run
JudgeIdle ==
    /\ spec_docs = "missing"
    /\ api_key = FALSE
    /\ api_up = FALSE
    /\ minutes = 0
    /\ semantic_check_json = NoSemanticCheck
    /\ sem_run = NoSemanticRun

\* none of the scripts modelled on their own has run
ScriptsIdle == UpdaterIdle /\ KeeperIdle /\ JudgeIdle

----------------------------------------------------------------------------
(* Session bookkeeping *)

NoParam ==
    [ max_iterations |-> DefaultMaxIterations,
      question_rounds |-> DefaultQuestionBudget,
      confidence_threshold |-> DefaultThreshold ]

\* mutant: the iteration count is not read
Snapshot_NoIteration(r) ==
    [ status |-> r.status,
      iteration |-> 0,
      spec_locked |-> r.spec_locked,
      question_round |-> r.question_round,
      last_verification_status |-> r.last_verification_status ]

\* step 1 of the iteration flow (loop.md "Read State")
Snapshot(r) ==
    [ status |-> r.status,
      iteration |-> r.iteration,
      spec_locked |-> r.spec_locked,
      question_round |-> r.question_round,
      last_verification_status |-> r.last_verification_status ]

NoSnap == Snapshot(InitRecord)

\* what a gate evaluation returns: the action taken and the Track A total and
\* Track B outcome it was taken on
GateResult(action, score, verdict) ==
    [action |-> action, score |-> score, verdict |-> verdict]

NoGate == GateResult("none", 0, "ok")

Init ==
    /\ workspace = {}
    /\ progress = [f \in Features |-> InitRecord]
    /\ spec_lock = [f \in Features |-> FALSE]
    /\ cmd = "none"
    /\ cur = "f1"
    /\ pc = "idle"
    /\ param = NoParam
    /\ snap = NoSnap
    /\ attempts = 0
    /\ report = "none"
    /\ attempt = NoAttempt
    /\ cancel_result = NoCancel
    /\ guard_exit = -1
    /\ stop_exit = -1
    /\ gate_result = NoGate
    /\ ScorerIdle
    /\ ScriptsIdle

----------------------------------------------------------------------------
(* init.sh <feature>: fails when the directory exists, else creates the
   workspace with the template progress.md and no spec.lock *)
InitFeature(f) ==
    /\ f \notin workspace
    /\ workspace' = workspace \cup {f}
    /\ progress' = [progress EXCEPT ![f] = InitRecord]
    /\ spec_lock' = [spec_lock EXCEPT ![f] = FALSE]
    /\ cancel_result' = NoCancel
    /\ guard_exit' = -1
    /\ UNCHANGED attempt
    /\ UNCHANGED toolVars
    /\ stop_exit' = -1
    /\ gate_result' = NoGate
    /\ UNCHANGED <<cmd, cur, pc, param, snap, attempts, report>>

----------------------------------------------------------------------------
(* Readiness gate, Phase 3c *)

\* semantic_ok as the gate reads it: check-semantic.ts writes the judge's ok,
\* ok: true when there is no API key (degraded mode), and ok: false when the
\* call throws (HTTP error, unexpected block, invalid JSON)
SemanticOk(verdict) == verdict \in {"ok", "unavailable"}

\* mutant: the pass condition forgets the Track A total
GatePasses_AnyScore(score, verdict, threshold) ==
    SemanticOk(verdict)

\* dev.md step 3: pass iff readiness_score >= {confidence-threshold} and semantic_ok
GatePasses(score, verdict, threshold) ==
    score >= threshold /\ SemanticOk(verdict)

\* mutant: one question round too many
BudgetLeft_Inclusive(question_round, question_rounds) ==
    question_round <= question_rounds

\* dev.md step 4b / loop.md: a question round is asked while
\* question_round < {question-rounds}
BudgetLeft(question_round, question_rounds) ==
    question_round < question_rounds

\* mutant: the budget is looked at before the pass condition
GateAction_AskFirst(score, verdict, threshold, question_round, question_rounds, decision) ==
    IF BudgetLeft(question_round, question_rounds) THEN "ask"
    ELSE IF GatePasses(score, verdict, threshold) THEN "pass"
    ELSE decision

\* what the gate does: "pass", "ask" (question round), "accept" or "reject"
\* (assumptions pack with the user's decision)
GateAction(score, verdict, threshold, question_round, question_rounds, decision) ==
    IF GatePasses(score, verdict, threshold) THEN "pass"
    ELSE IF BudgetLeft(question_round, question_rounds) THEN "ask"
    ELSE decision

----------------------------------------------------------------------------
(* /smart-dev:loop *)

StartLoop(f, n, q, t) ==
    /\ cmd = "none"
    /\ f \in Driven
    /\ f \in workspace
    /\ cmd' = "loop"
    /\ cur' = f
    /\ pc' = "read"
    /\ param' = [max_iterations |-> n, question_rounds |-> q, confidence_threshold |-> t]
    /\ report' = "none"
    /\ cancel_result' = NoCancel
    /\ guard_exit' = -1
    /\ UNCHANGED attempt
    /\ UNCHANGED toolVars
    /\ stop_exit' = -1
    /\ gate_result' = NoGate
    /\ UNCHANGED <<workspace, progress, spec_lock, snap, attempts>>

\* 1. Read State; a canceled feature halts the loop
ReadState ==
    /\ cmd = "loop"
    /\ pc = "read"
    /\ snap' = Snapshot(progress[cur])
    /\ pc' = IF progress[cur].status = "canceled" THEN "stop" ELSE "act"
    /\ report' = "none"
    /\ cancel_result' = NoCancel
    /\ guard_exit' = -1
    /\ UNCHANGED attempt
    /\ UNCHANGED toolVars
    /\ stop_exit' = -1
    /\ gate_result' = NoGate
    /\ UNCHANGED <<workspace, progress, spec_lock, cmd, cur, param, attempts>>

\* 2. Decide Action Based on State
Branch(s) ==
    IF s.status \in {"done", "blocked", "fixing"} THEN s.status
    ELSE IF ~s.spec_locked THEN "gate"
    ELSE "implementing"

\* mutant: the iteration ceiling is tested before completion
StopCondition_TimeoutFirst(r, max_iter) ==
    IF r.iteration >= max_iter THEN "timeout"
    ELSE IF r.status = "done" /\ r.last_verification_status = "pass" THEN "promise"
    ELSE "none"

\* 4. Check Stop Condition, on the values just written
StopCondition(r, max_iter) ==
    IF r.status = "done" /\ r.last_verification_status = "pass" THEN "promise"
    ELSE IF r.iteration >= max_iter THEN "timeout"
    ELSE "none"

\* 3. Update Progress (update-progress.sh --set-field ...) followed by 4.
Finish(upd, lock, g) ==
    LET r == SetFields(progress[cur], upd)
        stop == StopCondition(r, param.max_iterations)
    IN  /\ progress' = [progress EXCEPT ![cur] = r]
        /\ spec_lock' = [spec_lock EXCEPT ![cur] = lock]
        /\ report' = IF stop # "none" THEN stop
                     ELSE IF r.status = "blocked" THEN "stuck"
                     ELSE "none"
        /\ pc' = IF stop # "none" THEN "stop" ELSE "read"
        /\ cancel_result' = NoCancel
        /\ guard_exit' = -1
        /\ UNCHANGED attempt
        /\ UNCHANGED toolVars
        /\ stop_exit' = -1
        /\ gate_result' = g
        /\ UNCHANGED <<workspace, cmd, cur, param, snap, attempts>>

\* spec not locked: run the gate
LoopGate(score, verdict, decision) ==
    /\ cmd = "loop" /\ pc = "act"
    /\ Branch(snap) = "gate"
    /\ snap.iteration < IterCap
    /\ LET act == GateAction(score, verdict, param.confidence_threshold,
                             snap.question_round, param.question_rounds, decision)
           scored == [ readiness_score |-> score,
                       semantic_ok |-> SemanticOk(verdict),
                       iteration |-> snap.iteration + 1,
                       last_verification_status |-> snap.last_verification_status ]
           g == GateResult(act, score, verdict)
       IN  CASE act = "pass" ->
                  Finish(scored @@ [status |-> "implementing", spec_locked |-> TRUE], TRUE, g)
             [] act = "ask" ->
                  Finish(scored @@ [status |-> "collecting",
                                    question_round |-> snap.question_round + 1],
                         spec_lock[cur], g)
             [] act = "accept" ->
                  Finish(scored @@ [status |-> "implementing", spec_locked |-> TRUE,
                                    assumptions_accepted |-> TRUE], TRUE, g)
             [] act = "reject" ->
                  Finish(scored @@ [status |-> "blocked"], spec_lock[cur], g)

\* mutant: a failed verification unlocks the spec
LoopImplement_DropsLock(result) ==
    /\ cmd = "loop" /\ pc = "act"
    /\ Branch(snap) = "implementing"
    /\ snap.iteration < IterCap
    /\ IF result = "pass"
       THEN Finish([status |-> "done", last_verification_status |-> "pass",
                    iteration |-> snap.iteration + 1], spec_lock[cur], NoGate)
       ELSE Finish([status |-> "fixing", last_verification_status |-> "fail",
                    last_error |-> "error", iteration |-> snap.iteration + 1],
                   FALSE, NoGate)

\* spec locked: implement and verify
LoopImplement(result) ==
    /\ cmd = "loop" /\ pc = "act"
    /\ Branch(snap) = "implementing"
    /\ snap.iteration < IterCap
    /\ IF result = "pass"
       THEN Finish([status |-> "done", last_verification_status |-> "pass",
                    iteration |-> snap.iteration + 1], spec_lock[cur], NoGate)
       ELSE Finish([status |-> "fixing", last_verification_status |-> "fail",
                    last_error |-> "error", iteration |-> snap.iteration + 1],
                   spec_lock[cur], NoGate)

\* mutant: a successful fix goes back to implementing
LoopFix_BackToImplementing(result) ==
    /\ cmd = "loop" /\ pc = "act"
    /\ Branch(snap) = "fixing"
    /\ snap.iteration < IterCap
    /\ IF result = "pass"
       THEN Finish([status |-> "implementing", last_verification_status |-> "pass",
                    iteration |-> snap.iteration + 1], spec_lock[cur], NoGate)
       ELSE Finish([status |-> "fixing", last_verification_status |-> "fail",
                    last_error |-> "error", iteration |-> snap.iteration + 1],
                   spec_lock[cur], NoGate)

\* status fixing: fix and re-run verification
LoopFix(result) ==
    /\ cmd = "loop" /\ pc = "act"
    /\ Branch(snap) = "fixing"
    /\ snap.iteration < IterCap
    /\ IF result = "pass"
       THEN Finish([status |-> "done", last_verification_status |-> "pass",
                    iteration |-> snap.iteration + 1], spec_lock[cur], NoGate)
       ELSE Finish([status |-> "fixing", last_verification_status |-> "fail",
                    last_error |-> "error", iteration |-> snap.iteration + 1],
                   spec_lock[cur], NoGate)

\* status done: review, PR, completion promise
LoopDone ==
    /\ cmd = "loop" /\ pc = "act"
    /\ Branch(snap) = "done"
    /\ snap.iteration < IterCap
    /\ Finish([status |-> "done",
               last_verification_status |-> snap.last_verification_status,
               iteration |-> snap.iteration + 1], spec_lock[cur], NoGate)

\* status blocked: stuck report, iteration is not incremented
LoopBlocked ==
    /\ cmd = "loop" /\ pc = "act"
    /\ Branch(snap) = "blocked"
    /\ Finish(<<>>, spec_lock[cur], NoGate)
----------------------------------------------------------------------------
(* /smart-dev:dev *)

\* mutant: Phase 1 writes the template over an existing record
StartDev_Reinit(f, q, t) ==
    /\ cmd = "none"
    /\ f \in Driven
    /\ workspace' = workspace \cup {f}
    /\ progress' = [progress EXCEPT ![f] = InitRecord]
    /\ spec_lock' = IF f \in workspace THEN spec_lock
                    ELSE [spec_lock EXCEPT ![f] = FALSE]
    /\ cmd' = "dev"
    /\ cur' = f
    /\ pc' = "gate"
    /\ param' = [max_iterations |-> DefaultMaxIterations, question_rounds |-> q,
                 confidence_threshold |-> t]
    /\ attempts' = 0
    /\ report' = "none"
    /\ cancel_result' = NoCancel
    /\ guard_exit' = -1
    /\ UNCHANGED attempt
    /\ UNCHANGED toolVars
    /\ stop_exit' = -1
    /\ gate_result' = NoGate
    /\ UNCHANGED snap

\* Phase 1 runs init.sh (which fails on an existing workspace and leaves it
\* as it is); phases 2-3b produce the documents the gate reads
StartDev(f, q, t) ==
    /\ cmd = "none"
    /\ f \in Driven
    /\ workspace' = workspace \cup {f}
    /\ progress' = IF f \in workspace THEN progress
                   ELSE [progress EXCEPT ![f] = InitRecord]
    /\ spec_lock' = IF f \in workspace THEN spec_lock
                    ELSE [spec_lock EXCEPT ![f] = FALSE]
    /\ cmd' = "dev"
    /\ cur' = f
    /\ pc' = "gate"
    /\ param' = [max_iterations |-> DefaultMaxIterations, question_rounds |-> q,
                 confidence_threshold |-> t]
    /\ attempts' = 0
    /\ report' = "none"
    /\ cancel_result' = NoCancel
    /\ guard_exit' = -1
    /\ UNCHANGED attempt
    /\ UNCHANGED toolVars
    /\ stop_exit' = -1
    /\ gate_result' = NoGate
    /\ UNCHANGED snap

\* Phase 3c
DevGate(score, verdict, decision) ==
    /\ cmd = "dev" /\ pc = "gate"
    /\ LET r == progress[cur]
           act == GateAction(score, verdict, param.confidence_threshold,
                             r.question_round, param.question_rounds, decision)
       IN  CASE act = "pass" ->
                  /\ spec_lock' = [spec_lock EXCEPT ![cur] = TRUE]
                  /\ progress' = [progress EXCEPT ![cur] =
                        SetFields(r, [spec_locked |-> TRUE, readiness_score |-> score,
                                      semantic_ok |-> TRUE, phase |-> 4])]
                  /\ pc' = "impl"
                  /\ report' = "none"
             [] act = "ask" ->
                  /\ progress' = [progress EXCEPT ![cur] =
                        SetFields(r, [question_round |-> r.question_round + 1])]
                  /\ UNCHANGED <<spec_lock, pc>>
                  /\ report' = "none"
             [] act = "accept" ->
                  /\ spec_lock' = [spec_lock EXCEPT ![cur] = TRUE]
                  /\ progress' = [progress EXCEPT ![cur] =
                        SetFields(r, [assumptions_accepted |-> TRUE])]
                  /\ pc' = "impl"
                  /\ report' = "none"
             [] act = "reject" ->
                  /\ progress' = [progress EXCEPT ![cur] =
                        SetFields(r, [status |-> "blocked"])]
                  /\ UNCHANGED spec_lock
                  /\ pc' = "stop"
                  /\ report' = "stuck"
    /\ cancel_result' = NoCancel
    /\ guard_exit' = -1
    /\ UNCHANGED attempt
    /\ UNCHANGED toolVars
    /\ stop_exit' = -1
    /\ gate_result' = GateResult(GateAction(score, verdict, param.confidence_threshold,
                                           progress[cur].question_round,
                                           param.question_rounds, decision),
                                score, verdict)
    /\ UNCHANGED <<workspace, cmd, cur, param, snap, attempts>>

\* mutant: one attempt more before the failure report
DevVerify_FourthAttempt(result) ==
    /\ cmd = "dev" /\ pc = "impl"
    /\ attempts < MaxVerifyAttempts + 1
    /\ attempts' = attempts + 1
    /\ pc' = IF result = "pass" THEN "review"
             ELSE IF attempts + 1 < MaxVerifyAttempts + 1 THEN "impl"
             ELSE "stop"
    /\ report' = IF result = "fail" /\ attempts + 1 >= MaxVerifyAttempts + 1
                 THEN "failure" ELSE "none"
    /\ cancel_result' = NoCancel
    /\ guard_exit' = -1
    /\ UNCHANGED attempt
    /\ UNCHANGED toolVars
    /\ stop_exit' = -1
    /\ gate_result' = NoGate
    /\ UNCHANGED <<workspace, progress, spec_lock, cmd, cur, param, snap>>

\* Phase 4 final verification: fix and retry, at most MaxVerifyAttempts attempts
DevVerify(result) ==
    /\ cmd = "dev" /\ pc = "impl"
    /\ attempts < MaxVerifyAttempts
    /\ attempts' = attempts + 1
    /\ pc' = IF result = "pass" THEN "review"
             ELSE IF attempts + 1 < MaxVerifyAttempts THEN "impl"
             ELSE "stop"
    /\ report' = IF result = "fail" /\ attempts + 1 >= MaxVerifyAttempts
                 THEN "failure" ELSE "none"
    /\ cancel_result' = NoCancel
    /\ guard_exit' = -1
    /\ UNCHANGED attempt
    /\ UNCHANGED toolVars
    /\ stop_exit' = -1
    /\ gate_result' = NoGate
    /\ UNCHANGED <<workspace, progress, spec_lock, cmd, cur, param, snap>>

\* Phase 5: review, PR, "Mark progress.md as completed"
DevReview ==
    /\ cmd = "dev" /\ pc = "review"
    /\ progress' = [progress EXCEPT ![cur] =
            SetFields(progress[cur], [status |-> "completed", phase |-> 5])]
    /\ pc' = "stop"
    /\ report' = "none"
    /\ cancel_result' = NoCancel
    /\ guard_exit' = -1
    /\ UNCHANGED attempt
    /\ UNCHANGED toolVars
    /\ stop_exit' = -1
    /\ gate_result' = NoGate
    /\ UNCHANGED <<workspace, spec_lock, cmd, cur, param, snap, attempts>>

----------------------------------------------------------------------------
(* Stop hook run by the host when the session attempts to end.  Exit 0 ends
   the session; exit 2 blocks the stop and the command continues. *)
StopHook ==
    /\ pc \in {"idle", "read", "stop"}
    /\ cancel_result' = NoCancel
    /\ guard_exit' = -1
    /\ UNCHANGED attempt
    /\ UNCHANGED toolVars
    /\ stop_exit' = LoopStop(workspace, progress)
    /\ IF LoopStop(workspace, progress) = 0
       THEN /\ cmd' = "none"
            /\ pc' = "idle"
            /\ param' = NoParam
            /\ snap' = NoSnap
            /\ attempts' = 0
            /\ report' = "none"
       ELSE /\ pc' = IF cmd = "loop" THEN "read" ELSE pc
            /\ UNCHANGED <<cmd, param, snap, attempts, report>>
    /\ gate_result' = NoGate
    /\ UNCHANGED <<workspace, progress, spec_lock, cur>>

----------------------------------------------------------------------------
(* /smart-dev:cancel <feature>: update-progress.sh --set-field status=canceled;
   an unknown feature is an error and nothing is written *)
\* mutant: cancel also restarts the iteration count
Cancel_ResetIteration(f) ==
    /\ progress' = IF f \in workspace
                   THEN [progress EXCEPT ![f] =
                           SetFields(progress[f], [status |-> "canceled", iteration |-> 0])]
                   ELSE progress
    /\ cancel_result' = [feature |-> f, exit |-> IF f \in workspace THEN 0 ELSE 1]
    /\ guard_exit' = -1
    /\ UNCHANGED attempt
    /\ UNCHANGED toolVars
    /\ stop_exit' = -1
    /\ gate_result' = NoGate
    /\ UNCHANGED <<workspace, spec_lock, cmd, cur, pc, param, snap, attempts, report>>

Cancel(f) ==
    /\ progress' = IF f \in workspace
                   THEN [progress EXCEPT ![f] =
                           SetFields(progress[f], [status |-> "canceled"])]
                   ELSE progress
    /\ cancel_result' = [feature |-> f, exit |-> IF f \in workspace THEN 0 ELSE 1]
    /\ guard_exit' = -1
    /\ UNCHANGED attempt
    /\ UNCHANGED toolVars
    /\ stop_exit' = -1
    /\ gate_result' = NoGate
    /\ UNCHANGED <<workspace, spec_lock, cmd, cur, pc, param, snap, attempts, report>>

\* cancel.md "To Resume Canceled Feature": the status to restore is decided
\* from spec_locked and last_verification_status
PreviousStatus(r) ==
    IF ~r.spec_locked THEN "collecting"
    ELSE IF r.last_verification_status = "fail" THEN "fixing"
    ELSE "implementing"

Resume(f) ==
    /\ f \in workspace
    /\ progress[f].status = "canceled"
    /\ progress' = [progress EXCEPT ![f] =
            SetFields(progress[f], [status |-> PreviousStatus(progress[f])])]
    /\ cancel_result' = NoCancel
    /\ guard_exit' = -1
    /\ UNCHANGED attempt
    /\ UNCHANGED toolVars
    /\ stop_exit' = -1
    /\ gate_result' = NoGate
    /\ UNCHANGED <<workspace, spec_lock, cmd, cur, pc, param, snap, attempts, report>>

\* update-progress.sh <feature> --set-field mode=loop: init.sh writes
\* mode: dev and neither command file sets the field, so a record is in loop
\* mode only after this call
MarkLoop(f) ==
    /\ f \in workspace
    /\ progress[f].mode = "dev"
    /\ progress' = [progress EXCEPT ![f] = SetFields(progress[f], [mode |-> "loop"])]
    /\ cancel_result' = NoCancel
    /\ guard_exit' = -1
    /\ UNCHANGED attempt
    /\ UNCHANGED toolVars
    /\ stop_exit' = -1
    /\ gate_result' = NoGate
    /\ UNCHANGED <<workspace, spec_lock, cmd, cur, pc, param, snap, attempts, report>>

\* operator unlock: rm .works/spec/<feature>/spec.lock
Unlock(f) ==
    /\ f \in workspace
    /\ spec_lock[f]
    /\ spec_lock' = [spec_lock EXCEPT ![f] = FALSE]
    /\ cancel_result' = NoCancel
    /\ guard_exit' = -1
    /\ UNCHANGED attempt
    /\ UNCHANGED toolVars
    /\ stop_exit' = -1
    /\ gate_result' = NoGate
    /\ UNCHANGED <<workspace, progress, cmd, cur, pc, param, snap, attempts, report>>

----------------------------------------------------------------------------
Decisions == {"accept", "reject"}
Results == {"pass", "fail"}

Next ==
    \/ \E f \in Driven : InitFeature(f)
    \/ \E f \in Driven, n \in ParamIterations, q \in ParamQuestionRounds,
          t \in Thresholds : StartLoop(f, n, q, t)
    \/ ReadState
    \/ \E s \in Scores, v \in Verdicts, d \in Decisions : LoopGate(s, v, d)
    \/ \E r \in Results : LoopImplement(r)
    \/ \E r \in Results : LoopFix(r)
    \/ LoopDone
    \/ LoopBlocked
    \/ \E f \in Driven, q \in ParamQuestionRounds, t \in Thresholds : StartDev(f, q, t)
    \/ \E s \in Scores, v \in Verdicts, d \in Decisions : DevGate(s, v, d)
    \/ \E r \in Results : DevVerify(r)
    \/ DevReview
    \/ StopHook
    \/ \E f \in Driven : Cancel(f)
    \/ \E f \in Driven : Resume(f)
    \/ \E f \in Driven : MarkLoop(f)
    \/ \E f \in Driven : Unlock(f)

Spec == Init /\ [][Next]_vars
----------------------------------------------------------------------------
(* The Stop hook as a function of the records it finds: every combination of
   mode, status, iteration and last_verification_status that the commands
   can leave in up to two workspaces, no command running.  max_iterations is
   the value init.sh writes, which nothing changes. *)

\* status and last_verification_status as the commands write them together:
\* done comes with pass and fixing with fail (loop.md steps 4-5), and the
\* gate runs before any verification
Written(r) ==
    /\ r.status \in {"in_progress", "collecting"} => r.last_verification_status = ""
    /\ r.status = "implementing" => r.last_verification_status # "fail"
    /\ r.status = "fixing" => r.last_verification_status = "fail"
    /\ r.status = "done" => r.last_verification_status = "pass"

HookIterations ==
    (0..HookMaxIter) \cup
    ((DefaultMaxIterations - 1)..(DefaultMaxIterations - 1 + HookMaxIter))

HookRecords ==
    { r \in { [InitRecord EXCEPT !.mode = m, !.status = s, !.iteration = i,
                                 !.last_verification_status = l] :
               m \in {"dev", "loop"}, s \in Statuses, i \in HookIterations,
               l \in VerificationStatuses } : Written(r) }

HookInit ==
    /\ workspace \in SUBSET Features
    /\ progress \in [Features -> HookRecords \cup {InitRecord}]
    /\ \A f \in Features : f \notin workspace => progress[f] = InitRecord
    /\ \A f \in Features : f \in workspace => progress[f] \in HookRecords
    /\ spec_lock = [f \in Features |-> FALSE]
    /\ cmd = "none"
    /\ cur = "f1"
    /\ pc = "idle"
    /\ param = NoParam
    /\ snap = NoSnap
    /\ attempts = 0
    /\ report = "none"
    /\ attempt = NoAttempt
    /\ cancel_result = NoCancel
    /\ guard_exit = -1
    /\ stop_exit = -1
    /\ gate_result = NoGate
    /\ ScorerIdle
    /\ ScriptsIdle

HookSpec == HookInit /\ [][StopHook]_vars

----------------------------------------------------------------------------
(* The write guard as a function of the tool use submitted and of the lock
   markers found, with records whose spec_locked agrees or not with the
   marker. *)
GuardInit ==
    /\ workspace = Features
    /\ spec_lock \in [Features -> BOOLEAN]
    /\ progress \in [Features -> {InitRecord,
                                  [InitRecord EXCEPT !.spec_locked = TRUE,
                                                     !.readiness_score = DefaultThreshold]}]
    /\ progress["f2"] = InitRecord
    /\ attempt \in [tool_name : ToolNames, file_path : Paths]
    /\ cancel_result = NoCancel
    /\ guard_exit = -1
    /\ cmd = "none"
    /\ cur = "f1"
    /\ pc = "idle"
    /\ param = NoParam
    /\ snap = NoSnap
    /\ attempts = 0
    /\ report = "none"
    /\ stop_exit = -1
    /\ gate_result = NoGate
    /\ ScorerIdle
    /\ ScriptsIdle

GuardSpec == GuardInit /\ [][WriteGuard]_vars

----------------------------------------------------------------------------
(* The loop command left to itself on a workspace in loop mode: no cancel,
   resume, unlock or dev command.  The session takes the steps of the
   iteration flow as long as one is possible; the Stop hook runs whenever
   the session attempts to end. *)
LoopInit ==
    /\ workspace = {"f1"}
    /\ progress = [f \in Features |->
                      IF f = "f1" THEN [InitRecord EXCEPT !.mode = "loop"]
                      ELSE InitRecord]
    /\ spec_lock = [f \in Features |-> FALSE]
    /\ cmd = "none"
    /\ cur = "f1"
    /\ pc = "idle"
    /\ param = NoParam
    /\ snap = NoSnap
    /\ attempts = 0
    /\ report = "none"
    /\ attempt = NoAttempt
    /\ cancel_result = NoCancel
    /\ guard_exit = -1
    /\ stop_exit = -1
    /\ gate_result = NoGate
    /\ ScorerIdle
    /\ ScriptsIdle

\* a step of the iteration flow
ControllerStep ==
    \/ ReadState
    \/ \E s \in Scores, v \in Verdicts, d \in Decisions : LoopGate(s, v, d)
    \/ \E r \in Results : LoopImplement(r)
    \/ \E r \in Results : LoopFix(r)
    \/ LoopDone
    \/ LoopBlocked

LoopNext ==
    \/ \E n \in ParamIterations, q \in ParamQuestionRounds, t \in Thresholds :
          StartLoop("f1", n, q, t)
    \/ ControllerStep
    \/ StopHook

LoopLiveSpec ==
    LoopInit /\ [][LoopNext]_vars /\ WF_vars(ControllerStep) /\ WF_vars(StopHook)

----------------------------------------------------------------------------
(* bun run score-spec.ts [--feature f1] [--threshold <text>] *)

\* usage error and missing input exit 1 before anything is written;
\* otherwise the result is written and the exit code tells whether the
\* total reaches the threshold
Score(args) ==
    LET parsed == ParseArgs(args, 1, NoArgs)
    IN  /\ IF parsed.featureName = "" \/ ~contracts_md.exists \/ ~tasks_md.exists
           THEN /\ score_run' = ScorerRun(args, parsed.threshold, 1, FALSE)
                /\ UNCHANGED score_json
           ELSE LET result == ScoreResult(contracts_md, tasks_md, now)
                IN  /\ score_json' = result
                    /\ score_run' = ScorerRun(args, parsed.threshold,
                                              IF AtLeast(result.total, parsed.threshold)
                                              THEN 0 ELSE 1,
                                              TRUE)
        /\ UNCHANGED <<contracts_md, tasks_md, now>>
        /\ UNCHANGED <<workflowVars, scriptVars>>

\* time passes
Tick ==
    /\ now < MaxClock
    /\ now' = now + 1
    /\ score_run' = NoRun
    /\ UNCHANGED <<contracts_md, tasks_md, score_json>>
    /\ UNCHANGED <<workflowVars, scriptVars>>

\* the operator removes a specification document
RemoveContracts ==
    /\ contracts_md.exists
    /\ contracts_md' = NoFile
    /\ score_run' = NoRun
    /\ UNCHANGED <<tasks_md, now, score_json>>
    /\ UNCHANGED <<workflowVars, scriptVars>>

RemoveTasks ==
    /\ tasks_md.exists
    /\ tasks_md' = NoFile
    /\ score_run' = NoRun
    /\ UNCHANGED <<contracts_md, now, score_json>>
    /\ UNCHANGED <<workflowVars, scriptVars>>

\* a specification that has every pattern the scorer rewards and none it
\* penalises
CompleteContracts == ContractPatterns \ {"open_questions"}
CompleteTasks == TaskPatterns

Toggle(S, x) == IF x \in S THEN S \ {x} ELSE S \cup {x}

\* the complete and the empty specification, and each of them with one
\* pattern of one document toggled
MatchFamily ==
    LET Around(c, t) ==
            {<<c, t>>}
            \cup {<<Toggle(c, x), t>> : x \in ContractPatterns}
            \cup {<<c, Toggle(t, x)>> : x \in TaskPatterns}
    IN  Around(CompleteContracts, CompleteTasks) \cup Around({}, {})

\* placeholder occurrences, at most n in all
Occurrences(n) ==
    {b \in [PlaceholderTokens -> 0..n] :
        b["TBD"] + b["TODO"] + b["???"] + b["[later]"] <= n}

ScorerInit ==
    /\ workspace = {"f1"}
    /\ progress = [f \in Features |-> InitRecord]
    /\ spec_lock = [f \in Features |-> FALSE]
    /\ cmd = "none"
    /\ cur = "f1"
    /\ pc = "idle"
    /\ param = NoParam
    /\ snap = NoSnap
    /\ attempts = 0
    /\ report = "none"
    /\ attempt = NoAttempt
    /\ cancel_result = NoCancel
    /\ guard_exit = -1
    /\ stop_exit = -1
    /\ gate_result = NoGate
    /\ \E m \in MatchFamily, b \in Occurrences(MaxOccur) :
          contracts_md = File(m[1], 0, b)
    /\ \E m \in MatchFamily, n \in 0..MaxChecklist,
          b \in {NoPlaceholders, [NoPlaceholders EXCEPT !["TODO"] = 1]} :
          tasks_md = File(m[2], n, b)
    /\ <<contracts_md.matches, tasks_md.matches>> \in MatchFamily
    /\ now = 0
    /\ score_json = NoScore
    /\ score_run = NoRun
    /\ ScriptsIdle

ScorerNext ==
    \/ \E args \in Argvs : Score(args)
    \/ Tick
    \/ RemoveContracts
    \/ RemoveTasks

ScorerSpec == ScorerInit /\ [][ScorerNext]_vars

----------------------------------------------------------------------------
(* update-progress.sh run on its own over one progress.md *)

\* no command of the workflow has run and there is no workspace
WorkflowIdle ==
    /\ workspace = {}
    /\ progress = [f \in Features |-> InitRecord]
    /\ spec_lock = [f \in Features |-> FALSE]
    /\ cmd = "none"
    /\ cur = "f1"
    /\ pc = "idle"
    /\ param = NoParam
    /\ snap = NoSnap
    /\ attempts = 0
    /\ report = "none"
    /\ attempt = NoAttempt
    /\ cancel_result = NoCancel
    /\ guard_exit = -1
    /\ stop_exit = -1
    /\ gate_result = NoGate

\* command lines of the --set-field mode: "$2" is --set-field
UpdaterArgvs ==
    UNION {{a \in [1..n -> UpdaterTokens] : a[1] = SetFieldFlag} : n \in 1..MaxUpdArgs}

\* update-progress.sh <feature> --set-field ...
UpdateProgress(args) ==
    /\ LET result == UpdateProgressResult(progress_md, args, utc)
       IN  /\ progress_md' = result.md
           /\ upd_run' = [args |-> args, exit |-> result.exit, before |-> progress_md]
    /\ UNCHANGED utc
    /\ UNCHANGED <<workflowVars, scorerVars, keeperVars, judgeVars>>

\* time passes
Elapse ==
    /\ utc < MaxUtc
    /\ utc' = utc + 1
    /\ upd_run' = NoUpd
    /\ UNCHANGED progress_md
    /\ UNCHANGED <<workflowVars, scorerVars, keeperVars, judgeVars>>

UpdaterInit ==
    /\ WorkflowIdle
    /\ ScorerIdle
    /\ progress_md \in {NoProgressFile, ProgressFile(LegacyTemplate(0)),
                        ProgressFile(SmartDevTemplate(0))}
    /\ utc = 0
    /\ upd_run = NoUpd
    /\ KeeperIdle
    /\ JudgeIdle

UpdaterNext ==
    \/ \E args \in UpdaterArgvs : UpdateProgress(args)
    \/ Elapse

UpdaterSpec == UpdaterInit /\ [][UpdaterNext]_vars

----------------------------------------------------------------------------
(* context-keeper: a session with the PostToolUse and Stop hooks installed *)

\* a tool use followed by post_tool_use.sh; a tracked write of the
\* documentation file brings the documentation up to date
PostToolUse(tool, path) ==
    /\ Len(pending_txt.lines) < MaxPending
    /\ LET line == PendingLine(tool, path)
       IN  /\ pending_txt' = IF line = <<>> THEN pending_txt
                             ELSE [exists |-> TRUE, lines |-> pending_txt.lines \o line]
           /\ owed' = IF line = <<>> THEN owed
                      ELSE IF path = DocFile THEN {}
                      ELSE owed \cup {path}
    /\ keeper_exit' = -1
    /\ UNCHANGED strict
    /\ UNCHANGED <<workflowVars, scorerVars, updaterVars, judgeVars>>

\* the session attempts to end: stop.sh, with --strict when so configured
KeeperStop ==
    /\ keeper_exit' = StopExit(pending_txt, IF strict THEN "--strict" ELSE "")
    /\ pending_txt' = NoPending
    /\ UNCHANGED <<strict, owed>>
    /\ UNCHANGED <<workflowVars, scorerVars, updaterVars, judgeVars>>

KeeperInit ==
    /\ WorkflowIdle
    /\ ScorerIdle
    /\ UpdaterIdle
    /\ pending_txt = NoPending
    /\ strict \in BOOLEAN
    /\ owed = {}
    /\ keeper_exit = -1
    /\ JudgeIdle

KeeperNext ==
    \/ \E tool \in KeeperTools, path \in SourceFiles \cup {DocFile, ""} :
          PostToolUse(tool, path)
    \/ KeeperStop

KeeperSpec == KeeperInit /\ [][KeeperNext]_vars

----------------------------------------------------------------------------
(* check-semantic.ts run by the gate between edits of the documents *)

\* Track B of a gate evaluation
CheckSemantic ==
    /\ LET result == CheckSemanticResult(semantic_check_json, spec_docs, api_key,
                                         api_up, minutes)
       IN  /\ semantic_check_json' = result.json
           /\ sem_run' = [exit |-> result.exit, cached |-> result.cached]
    /\ UNCHANGED <<spec_docs, api_key, api_up, minutes>>
    /\ UNCHANGED <<workflowVars, scorerVars, updaterVars, keeperVars>>

\* the documents are written, rewritten or removed
EditDocs(docs) ==
    /\ docs # spec_docs
    /\ spec_docs' = docs
    /\ sem_run' = NoSemanticRun
    /\ UNCHANGED <<api_key, api_up, minutes, semantic_check_json>>
    /\ UNCHANGED <<workflowVars, scorerVars, updaterVars, keeperVars>>

\* ANTHROPIC_API_KEY is set or unset
SetApiKey ==
    /\ api_key' = ~api_key
    /\ sem_run' = NoSemanticRun
    /\ UNCHANGED <<spec_docs, api_up, minutes, semantic_check_json>>
    /\ UNCHANGED <<workflowVars, scorerVars, updaterVars, keeperVars>>

\* the API becomes reachable or unreachable
ApiChange ==
    /\ api_up' = ~api_up
    /\ sem_run' = NoSemanticRun
    /\ UNCHANGED <<spec_docs, api_key, minutes, semantic_check_json>>
    /\ UNCHANGED <<workflowVars, scorerVars, updaterVars, keeperVars>>

\* a minute passes
Minute ==
    /\ minutes < MaxMinutes
    /\ minutes' = minutes + 1
    /\ sem_run' = NoSemanticRun
    /\ UNCHANGED <<spec_docs, api_key, api_up, semantic_check_json>>
    /\ UNCHANGED <<workflowVars, scorerVars, updaterVars, keeperVars>>

JudgeInit ==
    /\ WorkflowIdle
    /\ ScorerIdle
    /\ UpdaterIdle
    /\ KeeperIdle
    /\ spec_docs \in DocStates
    /\ api_key \in BOOLEAN
    /\ api_up \in BOOLEAN
    /\ minutes = 0
    /\ semantic_check_json = NoSemanticCheck
    /\ sem_run = NoSemanticRun

JudgeNext ==
    \/ CheckSemantic
    \/ \E docs \in DocStates : EditDocs(docs)
    \/ SetApiKey
    \/ ApiChange
    \/ Minute

JudgeSpec == JudgeInit /\ [][JudgeNext]_vars

----------------------------------------------------------------------------
(* Exit Guard *)

LoopMode(f) == f \in workspace /\ progress[f].mode = "loop"

\* C1 as stated: the Stop hook never allows the stop (exit 0) while a
\* loop-mode feature is collecting, implementing or fixing, whatever its
\* iteration, max_iterations and last_verification_status.
C1_ExitSafetyAnyIteration ==
    stop_exit = 0 =>
        \A f \in Features : ~(LoopMode(f) /\ progress[f].status \in NonTerminal)

\* C1 amended: the Stop hook never allows the stop while a loop-mode feature
\* is collecting, implementing or fixing and its iteration is below its
\* max_iterations.
C1_ExitSafety ==
    stop_exit = 0 =>
        \A f \in Features :
            ~(/\ LoopMode(f)
              /\ progress[f].status \in NonTerminal
              /\ progress[f].iteration < progress[f].max_iterations)

\* the hook has just refused the stop for a non-terminal loop feature below
\* its ceiling
C1_Witness ==
    /\ stop_exit = 2
    /\ \E f \in Features :
          /\ LoopMode(f)
          /\ progress[f].status \in NonTerminal
          /\ progress[f].iteration < progress[f].max_iterations

\* C2 as stated: when every feature is in dev mode or in a terminal state
\* (done, blocked, canceled), the Stop hook allows the stop.
C2_AllowWhenTerminalOrDev ==
    (\A f \in workspace : progress[f].mode = "dev" \/ progress[f].status \in Terminal)
        => stop_exit # 2

\* a record the hook lets go without looking at its iteration count
Released(r) ==
    \/ r.mode = "dev"
    \/ r.status = "canceled"
    \/ r.status = "done" /\ r.last_verification_status = "pass"

\* C2 amended: when every feature is in dev mode, or canceled, or done with
\* last_verification_status = pass, the Stop hook allows the stop.
C2_AllowWhenReleased ==
    (\A f \in workspace : Released(progress[f])) => stop_exit # 2

\* the hook has just allowed the stop with a loop-mode feature that is
\* canceled or done-and-verified below its ceiling
C2_Witness ==
    /\ stop_exit = 0
    /\ \A f \in workspace : Released(progress[f])
    /\ \E f \in workspace :
          /\ progress[f].mode = "loop"
          /\ progress[f].iteration < progress[f].max_iterations
----------------------------------------------------------------------------
(* Iteration Loop Controller *)

\* C3: in loop mode a cycle that increments iteration starts only while
\* iteration is below the max-iterations the loop was given, so iteration
\* never exceeds it.
C3_LoopBounded ==
    [][(cmd = "loop" /\ progress'[cur].iteration > progress[cur].iteration)
          => progress[cur].iteration < param.max_iterations]_vars

\* C4: when the loop controller reports the timeout, the ceiling in the record
\* is the max-iterations it was given and the Stop hook allows the stop.
C4_TimeoutStop ==
    (cmd = "loop" /\ pc = "stop" /\ report = "timeout")
        => /\ progress[cur].max_iterations = param.max_iterations
           /\ LoopStop(workspace, progress) = 0

----------------------------------------------------------------------------
(* Readiness Gate *)

EntersImplementing(f) ==
    /\ progress[f].status \in {"in_progress", "collecting"}
    /\ progress'[f].status = "implementing"

LockCreated(f) == ~spec_lock[f] /\ spec_lock'[f]

\* the gate has just been evaluated on a Track A total and Track B outcome
\* that satisfy the pass condition: verdict ok, or judge skipped for lack of
\* an API key
PassingEvaluation ==
    /\ gate_result'.action # "none"
    /\ gate_result'.score >= param.confidence_threshold
    /\ gate_result'.verdict \in {"ok", "unavailable"}

\* C5: a step that takes a feature from in_progress/collecting to
\* implementing, or creates its spec.lock, leaves readiness_score at or above
\* the confidence threshold of the command, or assumptions_accepted true.
C5_GateSoundness ==
    [][\A f \in Features :
          (EntersImplementing(f) \/ LockCreated(f))
             => \/ progress'[f].readiness_score >= param.confidence_threshold
                \/ progress'[f].assumptions_accepted]_vars

\* the loop gate has just passed on the score: lock created, implementing
C5_Witness ==
    /\ cmd = "loop"
    /\ gate_result.action = "pass"
    /\ spec_lock[cur]
    /\ progress[cur].status = "implementing"
    /\ progress[cur].readiness_score >= param.confidence_threshold
    /\ ~progress[cur].assumptions_accepted

C7_BudgetBound ==
    \A f \in workspace :
        /\ 0 <= progress[f].question_round
        /\ progress[f].question_round <= progress[f].question_budget

\* C8: a failing gate evaluation with the question rounds used up offers the
\* assumptions pack (accept or reject) and asks no further round; a round is
\* asked only below the budget and counts one.
C8_NegotiationFallback ==
    [][/\ (/\ gate_result'.action \notin {"none", "pass"}
            /\ progress[cur].question_round >= param.question_rounds)
          => /\ gate_result'.action \in {"accept", "reject"}
             /\ progress'[cur].question_round = progress[cur].question_round
       /\ gate_result'.action = "ask"
          => /\ progress[cur].question_round < param.question_rounds
             /\ progress'[cur].question_round = progress[cur].question_round + 1]_vars

\* budget 2: two rounds were asked and the third failing evaluation has just
\* produced the assumptions pack
C8_Witness ==
    /\ gate_result.action \in {"accept", "reject"}
    /\ param.question_rounds = DefaultQuestionBudget
    /\ progress[cur].question_round = DefaultQuestionBudget

\* C9: when the assumptions pack is accepted, assumptions_accepted is true,
\* the lock is created and the record is updated as on a normal pass:
\* spec_locked true, and status implementing (loop) or phase 4 (dev).
C9_AssumptionForcedPass ==
    gate_result.action = "accept"
        => /\ progress[cur].assumptions_accepted
           /\ spec_lock[cur]
           /\ progress[cur].spec_locked
           /\ cmd = "loop" => progress[cur].status = "implementing"
           /\ cmd = "dev" => progress[cur].phase = 4

\* C10: rejecting the assumptions pack sets blocked without incrementing
\* iteration and without creating the lock, and a cycle spent in blocked does
\* not increment iteration.
C10_BlockedDoesNotCount ==
    [][/\ gate_result'.action = "reject"
          => /\ progress'[cur].status = "blocked"
             /\ progress'[cur].iteration = progress[cur].iteration
             /\ spec_lock'[cur] = spec_lock[cur]
       /\ (cmd = "loop" /\ pc = "act" /\ Branch(snap) = "blocked")
          => progress'[cur].iteration = progress[cur].iteration]_vars----------------------------------------------------------------------------
(* Spec Lock Guard *)

\* the file a path names: "." segments dropped
Normalize(file_path) == SelectSeq(file_path, LAMBDA seg : seg # ".")

\* the path names a specification artifact of feature f
IsSpecFile(file_path, f) ==
    Normalize(file_path) = <<".works", "spec", f, "contracts.md">>

\* C11: while the spec.lock of a feature exists, every write attempt on a
\* specification artifact of that feature submitted to the guard is denied.
C11_LockExclusivity ==
    (/\ guard_exit # -1
     /\ \E f \in Features : spec_lock[f] /\ IsSpecFile(attempt.file_path, f))
        => guard_exit = 2

\* C12: the guard denies only a write to a specification artifact of a
\* feature whose spec.lock exists; every other write is allowed.
C12_DenyOnlyIfLocked ==
    guard_exit = 2
        => \E f \in Features : spec_lock[f] /\ IsSpecFile(attempt.file_path, f)

\* C13: a write-check, allowing or denying, leaves every record, the set of
\* workspaces and every lock marker as they were.
C13_WriteCheckPure ==
    [][guard_exit' # -1 => UNCHANGED <<workspace, progress, spec_lock>>]_vars

\* a Write to contracts.md of a locked feature with a recorded score has just
\* been denied
C13_Witness ==
    /\ guard_exit = 2
    /\ attempt.tool_name = "Write"
    /\ attempt.file_path = <<".works", "spec", "f1", "contracts.md">>
    /\ spec_lock["f1"]
    /\ progress["f1"].readiness_score = DefaultThreshold----------------------------------------------------------------------------
(* Cancel *)

\* the Stop hook refuses the stop on account of feature f
Blocks(f) ==
    /\ f \in LoopFeatures(workspace, progress)
    /\ ~FeatureComplete(progress[f])
    /\ ~MaxIterationsReached(progress[f])

\* C14: a successful cancel leaves the feature canceled, whatever its status
\* and iteration were; a canceled feature never makes the Stop hook refuse
\* the stop, and a refusal is always on account of a feature not canceled.
C14_CancelReleases ==
    /\ cancel_result.exit = 0 => progress[cancel_result.feature].status = "canceled"
    /\ \A f \in workspace : progress[f].status = "canceled" => ~Blocks(f)
    /\ stop_exit = 2 => \E f \in workspace : progress[f].status # "canceled"

\* a loop feature canceled while fixing, below its ceiling, and the Stop hook
\* has just allowed the stop
C14_Witness ==
    /\ stop_exit = 0
    /\ progress["f1"].mode = "loop"
    /\ progress["f1"].status = "canceled"
    /\ progress["f1"].last_verification_status = "fail"
    /\ progress["f1"].iteration >= 1
    /\ progress["f1"].iteration < progress["f1"].max_iterations

\* C15: a successful cancel changes the status of the named feature to
\* canceled and nothing else in any record, no workspace and no lock marker;
\* a cancel naming a missing feature fails and changes nothing.
C15_CancelFrame ==
    [][cancel_result'.exit # -1
          => LET f == cancel_result'.feature
             IN  /\ UNCHANGED <<workspace, spec_lock>>
                 /\ cancel_result'.exit = 0
                      => /\ f \in workspace
                         /\ progress' = [progress EXCEPT ![f].status = "canceled"]
                 /\ cancel_result'.exit = 1
                      => /\ f \notin workspace
                         /\ progress' = progress]_vars

\* a locked feature has just been canceled in the middle of a loop: its
\* iteration, score and lock are still there
C15_Witness ==
    /\ cancel_result = [feature |-> "f1", exit |-> 0]
    /\ progress["f1"].status = "canceled"
    /\ progress["f1"].iteration >= 2
    /\ progress["f1"].spec_locked
    /\ progress["f1"].readiness_score >= DefaultThreshold
    /\ progress["f1"].question_round >= 1
    /\ spec_lock["f1"]----------------------------------------------------------------------------
(* State machine *)

\* states and edges of the state machine as the design lists them
DesignStates == {"collecting", "implementing", "fixing", "done", "blocked", "canceled"}
DesignEdges ==
    {<<"collecting", "implementing">>, <<"collecting", "blocked">>,
     <<"implementing", "fixing">>, <<"implementing", "done">>,
     <<"fixing", "implementing">>, <<"fixing", "done">>,
     <<"collecting", "canceled">>, <<"implementing", "canceled">>,
     <<"fixing", "canceled">>}

C17_TerminalReadOnly ==
    [][\A f \in workspace :
          (/\ progress[f].status \in Terminal
           /\ \/ cancel_result'.exit # -1
              \/ /\ cmd = "loop" /\ pc = "act" /\ pc' # "act" /\ f = cur
                 /\ snap.status = progress[f].status)
             => progress'[f] = progress[f]]_vars

\* C18: no step lowers the iteration of a record, and a cycle of the loop on a
\* feature that is not done, blocked or canceled raises it by exactly one.
C18_Monotonic ==
    [][\A f \in workspace :
          /\ progress'[f].iteration >= progress[f].iteration
          /\ (/\ cmd = "loop" /\ pc = "act" /\ pc' # "act" /\ f = cur
               /\ snap.status \notin Terminal
               /\ progress[f].status \notin Terminal)
                => progress'[f].iteration = progress[f].iteration + 1]_vars

\* a loop-mode feature in its third cycle, fixing
C18_Witness ==
    /\ cmd = "loop"
    /\ progress[cur].mode = "loop"
    /\ progress[cur].status = "fixing"
    /\ progress[cur].iteration = 3
    /\ snap.iteration = 2

\* the workspace of f has just been created
Created(f) == f \notin workspace /\ f \in workspace'

\* Phase 1 of the dev command has just run init.sh on an existing workspace
InitOnExisting(f) ==
    f \in workspace /\ cmd = "none" /\ cmd' = "dev" /\ cur' = f

\* C19 as stated: a record is created once, with status collecting,
\* iteration 0, spec_locked false, question_round 0 and no lock marker, and
\* init on an existing workspace changes nothing.
C19_CreatedCollecting ==
    [][\A f \in Features :
          /\ Created(f)
                => /\ progress'[f].status = "collecting"
                   /\ progress'[f].iteration = 0
                   /\ ~progress'[f].spec_locked
                   /\ progress'[f].question_round = 0
                   /\ ~spec_lock'[f]
          /\ f \in workspace => f \in workspace'
          /\ InitOnExisting(f) => UNCHANGED <<workspace, progress, spec_lock>>]_vars

\* C19 amended: a record is created once, with status in_progress, mode dev,
\* iteration 0, spec_locked false, question_round 0 and no lock marker, and
\* init on an existing workspace changes nothing.
C19_CreatedInProgress ==
    [][\A f \in Features :
          /\ Created(f)
                => /\ progress'[f].status = "in_progress"
                   /\ progress'[f].mode = "dev"
                   /\ progress'[f].iteration = 0
                   /\ ~progress'[f].spec_locked
                   /\ progress'[f].question_round = 0
                   /\ ~spec_lock'[f]
          /\ f \in workspace => f \in workspace'
          /\ InitOnExisting(f) => UNCHANGED <<workspace, progress, spec_lock>>]_vars

\* the dev command has just started on an existing workspace whose record
\* and lock are still those the loop left
C19_Witness ==
    /\ cmd = "dev" /\ pc = "gate"
    /\ gate_result = NoGate
    /\ attempts = 0
    /\ progress[cur].iteration >= 2
    /\ progress[cur].status = "fixing"
    /\ spec_lock[cur]

\* C20: a lock marker appears only in a step of the gate that passes or
\* accepts the assumptions, disappears only in a step of the operator (no
\* command, hook or cancel acting, no record changed), and spec_locked, once
\* true, stays true.
C20_LockLifecycle ==
    [][\A f \in Features :
          /\ LockCreated(f) => gate_result'.action \in {"pass", "accept"}
          /\ (spec_lock[f] /\ ~spec_lock'[f])
                => /\ UNCHANGED <<workspace, progress, cmd, cur, pc>>
                   /\ gate_result' = NoGate
                   /\ stop_exit' = -1
                   /\ guard_exit' = -1
                   /\ cancel_result' = NoCancel
          /\ progress[f].spec_locked => progress'[f].spec_locked]_vars

\* a locked feature went through a failed verification, a cancel and a
\* resume, and the Stop hook has just run: marker and spec_locked are there
C20_Witness ==
    /\ stop_exit # -1
    /\ spec_lock["f1"]
    /\ progress["f1"].spec_locked
    /\ progress["f1"].status = "fixing"
    /\ progress["f1"].iteration >= 2

----------------------------------------------------------------------------
----------------------------------------------------------------------------
\* outcomes of Track B in which the judge produced no verdict
NoVerdict == {"unavailable", "failed"}

\* C22: when the judge cannot produce a verdict (no credentials, or the call
\* fails) the gate passes if and only if the Track A score is at least the
\* confidence threshold.
C22_DegradedNeverFailsClosed ==
    (gate_result.action # "none" /\ gate_result.verdict \in NoVerdict)
        => (gate_result.action = "pass"
              <=> gate_result.score >= param.confidence_threshold)

----------------------------------------------------------------------------
(* Structural scorer *)

\* C23: a run of the scorer on the documents an existing report was written
\* from writes a report equal to it in every field, whenever it runs.  (The
\* documents are never edited here, so every run that finds a report finds
\* the one of the same text.)
C23_Idempotence ==
    [][(score_run'.wrote /\ score_json # NoScore) => score_json' = score_json]_vars

\* C24: total = max(0, sum of the five sub-scores - sum of the penalty
\* points), 0 <= total <= 100, total is at most the unpenalised sum, and each
\* sub-score is within its cap: structure 25, testability 25, interfaces 15,
\* constraints 15, verification 20.
C24_ScoreFormula ==
    score_json # NoScore =>
        LET raw == RawScore(score_json.breakdown)
            deducted == SumPoints(score_json.penalties)
        IN  /\ score_json.total = (IF raw - deducted > 0 THEN raw - deducted ELSE 0)
            /\ score_json.total \in 0..100
            /\ score_json.total <= raw
            /\ score_json.breakdown.structure \in 0..25
            /\ score_json.breakdown.testability \in 0..25
            /\ score_json.breakdown.interfaces \in 0..15
            /\ score_json.breakdown.constraints \in 0..15
            /\ score_json.breakdown.verification \in 0..20

\* a report whose penalties exceed its sub-scores: the total is clamped
C24_Witness ==
    /\ score_json # NoScore
    /\ SumPoints(score_json.penalties) > RawScore(score_json.breakdown)
    /\ score_json.total = 0

\* points deducted for placeholders in a report
PlaceholderPoints(r) ==
    SumPoints(SelectSeq(r.penalties, LAMBDA q : q.reason = "placeholders"))

\* placeholder occurrences in the two documents
OccurrenceCount(c, t) ==
    Concat(c, t)["TBD"] + Concat(c, t)["TODO"] + Concat(c, t)["???"]
        + Concat(c, t)["[later]"]

\* C25: a specification with n placeholder occurrences is penalised 5 * n
\* points, for every n.
C25_PlaceholderPenalty ==
    score_run.wrote
        => PlaceholderPoints(score_json) = 5 * OccurrenceCount(contracts_md, tasks_md)

\* C26 as stated: every check contributes its full value on success and 0
\* on failure.
C26_NoPartialCredit ==
    score_run.wrote =>
        /\ score_json.breakdown.structure
              = 5 * Cardinality(StructureSections \cap contracts_md.matches)
        /\ score_json.breakdown.testability
              = (IF tasks_md.checklist >= 3 THEN 10 ELSE 0)
                + (IF "given_when_then" \in tasks_md.matches THEN 15 ELSE 0)
        /\ score_json.breakdown.interfaces
              = (IF "type_definitions" \in contracts_md.matches THEN 10 ELSE 0)
                + (IF "error_section" \in contracts_md.matches THEN 5 ELSE 0)
        /\ score_json.breakdown.constraints
              = 5 * Cardinality({"nongoals_body", "requirements", "compatibility"}
                                  \cap contracts_md.matches)
        /\ score_json.breakdown.verification
              = 10 * Cardinality({"test_command", "build_command"}
                                   \cap (contracts_md.matches \cup tasks_md.matches))

\* C26, amended: every check contributes its full value on success and 0 on
\* failure, except the two testability checks: the checklist check gives 10
\* for three or more items, 5 for one or two and 0 for none, and the
\* executable-format check gives 15 when the format is found and 5 when not.
C26_FixedCredit ==
    score_run.wrote =>
        /\ score_json.breakdown.structure
              = 5 * Cardinality(StructureSections \cap contracts_md.matches)
        /\ score_json.breakdown.testability
              = (CASE tasks_md.checklist >= 3 -> 10
                   [] tasks_md.checklist \in {1, 2} -> 5
                   [] OTHER -> 0)
                + (IF "given_when_then" \in tasks_md.matches THEN 15 ELSE 5)
        /\ score_json.breakdown.interfaces
              = (IF "type_definitions" \in contracts_md.matches THEN 10 ELSE 0)
                + (IF "error_section" \in contracts_md.matches THEN 5 ELSE 0)
        /\ score_json.breakdown.constraints
              = 5 * Cardinality({"nongoals_body", "requirements", "compatibility"}
                                  \cap contracts_md.matches)
        /\ score_json.breakdown.verification
              = 10 * Cardinality({"test_command", "build_command"}
                                   \cap (contracts_md.matches \cup tasks_md.matches))

\* one checklist item and no executable format: 5 + 5
C26_Witness ==
    /\ score_run.wrote
    /\ tasks_md.checklist = 1
    /\ "given_when_then" \notin tasks_md.matches
    /\ score_json.breakdown.testability = 10

\* the threshold a command line asks for
DefaultArgs == {<<"--feature", "f1">>, <<"--feature", "f1", "--threshold">>}

\* C27: the scorer exits 0 if and only if it has written a report whose
\* total is at least the threshold, which is 95 unless --threshold gives a
\* number; when it has written a report it exits 1 exactly when the total
\* is below the threshold.
C27_ScorerVerdict ==
    (score_run.exit # -1 /\ ~score_run.threshold.nan) =>
        /\ score_run.exit \in {0, 1}
        /\ score_run.args \in DefaultArgs => score_run.threshold.n = 95
        /\ score_run.args = <<"--feature", "f1", "--threshold", "90">>
              => score_run.threshold.n = 90
        /\ score_run.args = <<"--feature", "f1", "--threshold", "100">>
              => score_run.threshold.n = 100
        /\ score_run.exit = 0
              <=> (score_run.wrote /\ score_json.total >= score_run.threshold.n)
        /\ score_run.wrote
              => (score_run.exit = 1 <=> score_json.total < score_run.threshold.n)

\* a total equal to the default threshold passes
C27_Witness ==
    /\ score_run.args = <<"--feature", "f1">>
    /\ score_run.wrote
    /\ score_json.total = 95
    /\ score_run.exit = 0

\* C28: a run of the scorer that fails on missing input does not leave a
\* report standing that passes the threshold of the run.
C28_FailuresRecorded ==
    (score_run.exit = 1 /\ ~score_run.wrote /\ score_run.args # <<>>)
        => ~AtLeast(score_json.total, score_run.threshold)

----------------------------------------------------------------------------
\* C29: in every reachable state last_verification_status = pass implies
\* that last_error is empty.
C29_LastErrorCleared ==
    \A f \in workspace :
        progress[f].last_verification_status = "pass" => progress[f].last_error = ""

----------------------------------------------------------------------------
----------------------------------------------------------------------------
----------------------------------------------------------------------------
\* C33: once a record is canceled it stays canceled until an explicit
\* resume: while the loop command runs, the only step that takes status away
\* from canceled is the resume, which changes nothing but status and leaves
\* the loop where it is; a cycle that read the record before the cancel
\* does not write over it.
C33_CancelNotLost ==
    [][\A f \in workspace :
          (cmd = "loop" /\ progress[f].status = "canceled"
              /\ progress'[f].status # "canceled")
             => /\ progress'[f] = SetFields(progress[f],
                                            [status |-> PreviousStatus(progress[f])])
                /\ UNCHANGED <<cmd, pc, snap, report>>]_vars

\* C34: for every feature spec.lock exists if and only if spec_locked is
\* true in its record, and status implementing, fixing or done implies that
\* spec.lock exists.
C34_LockAgrees ==
    \A f \in workspace :
        /\ spec_lock[f] <=> progress[f].spec_locked
        /\ progress[f].status \in {"implementing", "fixing", "done"} => spec_lock[f]

\* C35: after every cycle of the loop command the record of the feature it
\* drives has mode = loop.
C35_LoopModeSet ==
    [][(cmd = "loop" /\ pc = "act" /\ pc' # "act")
          => progress'[cur].mode = "loop"]_vars

\* a record on which the Stop hook has nothing to wait for
StopConditionMet(r) ==
    \/ r.status \in {"canceled", "completed"}
    \/ r.status = "done" /\ r.last_verification_status = "pass"
    \/ r.iteration >= r.max_iterations

\* C36: the Stop hook allows the stop if and only if every loop-mode feature
\* taken alone meets a stop condition (canceled, completed, done with pass,
\* or at its iteration ceiling), whatever the other features are.
C36_PerFeature ==
    stop_exit # -1 =>
        (stop_exit = 0
            <=> \A f \in workspace :
                    progress[f].mode = "loop" => StopConditionMet(progress[f]))

\* two loop-mode features, one canceled and one still implementing: the
\* hook refuses on account of the second alone
C36_Witness ==
    /\ stop_exit = 2
    /\ workspace = Features
    /\ progress["f1"].mode = "loop" /\ progress["f1"].status = "canceled"
    /\ progress["f2"].mode = "loop" /\ progress["f2"].status = "implementing"
    /\ progress["f2"].iteration < progress["f2"].max_iterations

----------------------------------------------------------------------------
(* context-keeper *)

\* C31: with the Stop hook configured with --strict, every stop attempt made
\* while files recorded in pending.txt are still without updated
\* documentation exits 2, the first attempt and every later one.
C31_StrictBlocks ==
    (strict /\ keeper_exit # -1 /\ owed # {}) => keeper_exit = 2

----------------------------------------------------------------------------
(* Track B verdict *)

\* the verdict check-semantic.ts computes from the documents and the Judge's
\* availability as they are now: skipped counts as ok, a failed call and
\* missing documents as not ok
FreshOk ==
    /\ spec_docs # "missing"
    /\ api_key => (api_up /\ JudgeOk(spec_docs))

\* C37: the verdict a run of check-semantic.ts hands to the gate is the one
\* computed from the documents and the Judge's availability as they are at
\* that run, never one left by an earlier run.
C37_FreshVerdict ==
    sem_run.exit # -1 => (sem_run.exit = 0 <=> FreshOk)

----------------------------------------------------------------------------
(* update-progress.sh --set-field *)

\* C38: after update-progress.sh <feature> --set-field k=v has exited 0, the
\* file has the line of k with value v, updated_at holds the time of the
\* call, and every other line is as it was - whatever the key, and also for
\* a file that had no line of k. Values that echo takes as options, which
\* are written as the empty text, are left out.
C38_SetFieldPost ==
    (upd_run.exit = 0 /\ Len(upd_run.args) = 2 /\ upd_run.args[2].value \notin EchoOptions)
        => LET k == upd_run.args[2].name
               v == upd_run.args[2].value
               before == upd_run.before.fields
               after == progress_md.fields
           IN  /\ k \in DOMAIN after
               /\ after[k] = v
               /\ after["updated_at"] = utc
               /\ \A j \in (DOMAIN before \cup DOMAIN after) \ {k, "updated_at"} :
                     j \in DOMAIN before /\ j \in DOMAIN after /\ after[j] = before[j]

\* C39: when update-progress.sh --set-field exits non-zero, the file is
\* exactly as it was before the call, also when valid pairs came before the
\* argument that made it fail.
C39_AllOrNothing ==
    upd_run.exit > 0 => progress_md = upd_run.before

\* every record the commands write is one of those the hook is checked on
RecordsWritten == \A f \in workspace : Written(progress[f])

====
